---- MODULE Spec2Model ----
(***************************************************************************)
(* Vitamin-deficiency detection backend: lazy model provisioning and       *)
(* loading (main.py, model/model_utils.py), the inference pipeline and the *)
(* per-user result ledger.                                                 *)
(***************************************************************************)
EXTENDS Integers, Sequences, FiniteSets, TLC

(***************************************************************************)
(* Strings are sequences of one-character strings, so that str.lower and   *)
(* str.strip are computed and not assumed.                                  *)
(***************************************************************************)
UpperCase == << "A", "B", "C", "D", "E", "F", "G", "H", "I", "J", "K", "L", "M",
                "N", "O", "P", "Q", "R", "S", "T", "U", "V", "W", "X", "Y", "Z" >>

LowerCase == << "a", "b", "c", "d", "e", "f", "g", "h", "i", "j", "k", "l", "m",
                "n", "o", "p", "q", "r", "s", "t", "u", "v", "w", "x", "y", "z" >>

\* the lowercase letter of each uppercase letter
ToLower ==
    [c \in {UpperCase[i] : i \in 1..Len(UpperCase)} |->
        LowerCase[CHOOSE i \in 1..Len(UpperCase) : UpperCase[i] = c]]

LowerChar(c) == IF c \in DOMAIN ToLower THEN ToLower[c] ELSE c

\* str.lower()
Lower(s) == [i \in 1..Len(s) |-> LowerChar(s[i])]

IsSpace(c) == c = " "

RECURSIVE LStrip(_)
LStrip(s) == IF Len(s) > 0 /\ IsSpace(Head(s)) THEN LStrip(Tail(s)) ELSE s

RECURSIVE RStrip(_)
RStrip(s) ==
    IF Len(s) > 0 /\ IsSpace(s[Len(s)]) THEN RStrip(SubSeq(s, 1, Len(s) - 1)) ELSE s

\* str.strip()
Strip(s) == RStrip(LStrip(s))

\* Python values: None for a reference is the name "None"; a model instance is
\* a positive number and no instance is NoModel
None == "None"

NoModel == 0

NoIndices == [loaded |-> FALSE, keys |-> << >>]

NoMapping == [loaded |-> FALSE, map |-> << >>]

\* predict_vitamin_deficiency ends by raising e: no result dict
RaiseV(e) ==
    [ok |-> FALSE, exc |-> e, predicted_disease |-> << >>,
     mapped_deficiency |-> << >>, confidence |-> 0]

NoResult == RaiseV("")

\* a request without an "image" file
NoImage == [present |-> FALSE, decodable |-> FALSE, preds |-> << >>]

NoMappingFound == << "N", "o", " ", "m", "a", "p", "p", "i", "n", "g", " ",
                     "f", "o", "u", "n", "d" >>

(***************************************************************************)
(* Bounds of the model.                                                    *)
(***************************************************************************)
\* calls of ensure_model_loaded started over a run of the load specification
MaxCalls == 3

(***************************************************************************)
(* Program constants.                                                      *)
(***************************************************************************)
\* for _ in range(120)
PollAttempts == 120

\* The table and the vocabulary of the specification's scenario
Acne == << "A", "c", "n", "e" >>

Scurvy == << "S", "c", "u", "r", "v", "y" >>

VitaminA == << "V", "i", "t", "a", "m", "i", "n", " ", "A" >>

VitaminC == << "V", "i", "t", "a", "m", "i", "n", " ", "C" >>

ExpectedCols == << "Diseases", "Deficiency" >>

ScenarioCsv ==
    [exists |-> TRUE, cols |-> ExpectedCols,
     rows |-> << << Acne, VitaminA >>, << Scurvy, VitaminC >> >>]

ScenarioVocab == [exists |-> TRUE, keys |-> << Acne, Scurvy >>]

MissingCsv == [exists |-> FALSE, cols |-> ExpectedCols, rows |-> << >>]

MissingVocab == [exists |-> FALSE, keys |-> << >>]

Threads == {"t1", "t2"}

VARIABLES
    \* ---- environment -------------------------------------------------
    file,            \* MODEL_PATH on disk: "absent", "zero" (0 bytes), "nonzero"
    ciFile,          \* class_indices.json: [exists, keys in file order]
    csvFile,         \* vitamin_deficiency_data.csv: [exists, cols, rows]
    \* ---- module globals of main.py -----------------------------------
    vitamin_model,   \* NoModel or the instance number of the loaded model
    class_indices,   \* NoIndices or the keys of the loaded dict, in dict order
    vitamin_mapping, \* NoMapping or the loaded dict (a function)
    MODEL_LOADED,
    \* ---- request threads inside ensure_model_loaded -------------------
    pc,              \* position of each thread
    site,            \* caller of ensure_model_downloaded: 1 = main.py:110, 2 = model_utils.py:67
    dlres,           \* outcome of the thread's ensure_model_downloaded call:
                     \* "True", "False" or "exception"
    polls,           \* completed iterations of the poll loop
    model,           \* value load_vitamin_model is about to return
    result,          \* how the thread's last ensure_model_loaded call ended: "True",
                     \* "False", "exception"; None while a call is running or before any
    calls,           \* calls of ensure_model_loaded started so far
    loadCount,       \* tf.keras.models.load_model executions so far (names the instances)
    \* ---- history variables -------------------------------------------
    everTrue,        \* some ensure_model_downloaded call has returned True
    late,            \* the thread's current download call began after everTrue
    nfetch,          \* gdown.download calls issued by the thread's current ensure_model_loaded call
    why,             \* why the thread's last ensure_model_downloaded call returned what it did
    \* ---- database and request log ------------------------------------
    UserVitamin,     \* rows of the user_vitamin table
    serial,          \* history: rows inserted so far
    expected,        \* history: what the responses sent so far say the ledger holds
    last,            \* the last HTTP request served and its response
    out,             \* the last application of a pure function and its value
    \* ---- HTTP layer ---------------------------------------------------
    Users,           \* emails of the rows of the users table
    uploads,         \* content of uploads/<filename>, per filename
    req              \* the request each worker thread is serving

vars == << file, ciFile, csvFile, vitamin_model, class_indices, vitamin_mapping,
           MODEL_LOADED, pc, site, dlres, polls, model, result, calls, loadCount,
           everTrue, late, nfetch, why, UserVitamin, serial, expected, last, out,
           Users, uploads, req >>

threadVars == << pc, site, dlres, polls, model, result, everTrue, late, nfetch, why >>

dbVars == << UserVitamin, serial, expected, last >>

envVars == << ciFile, csvFile >>

globals == << vitamin_model, class_indices, vitamin_mapping, MODEL_LOADED >>

webVars == << Users, uploads, req >>

(***************************************************************************)
(* model/model_utils.py: loaders                                           *)
(***************************************************************************)
\* load_class_indices raises FileNotFoundError
LoadClassIndicesRaises(f) == ~f.exists

\* json.load(f): the dict; the code only ever uses list(d.keys())
LoadClassIndices(f) == [loaded |-> TRUE, keys |-> f.keys]

\* load_mapping raises FileNotFoundError or ValueError
LoadMappingRaises(f) == ~f.exists \/ f.cols # ExpectedCols

\* dict comprehension over the rows: a later row with the same key wins
LoadMapping(f) ==
    LET rows == f.rows
        Key(i) == Lower(Strip(rows[i][1]))
        Keys == {Key(i) : i \in 1..Len(rows)}
        LastRow(k) == CHOOSE i \in 1..Len(rows) :
                          /\ Key(i) = k
                          /\ \A j \in 1..Len(rows) : Key(j) = k => j <= i
    IN  [loaded |-> TRUE, map |-> [k \in Keys |-> Strip(rows[LastRow(k)][2])]]

(***************************************************************************)
(* model/model_utils.py: ensure_model_downloaded, one step per statement   *)
(***************************************************************************)
\* Mutant of ArtifactAbsent: the existence check is lost, every call fetches
ArtifactAbsent_Always(f) == TRUE

\* Mutant of ArtifactAbsent: only os.path.exists is tested, a zero-byte file passes
ArtifactAbsent_ExistsOnly(f) == f = "absent"

\* line 20: not os.path.exists(MODEL_PATH) or os.path.getsize(MODEL_PATH) == 0
ArtifactAbsent(f) == f = "absent" \/ f = "zero"

\* line 31: os.path.exists(MODEL_PATH) and os.path.getsize(MODEL_PATH) > 0
ArtifactPresent(f) == f = "nonzero"

\* lines 25-27: except Exception -> return False
OnFetchException == "False"

\* what gdown.download can do: write the file, fail quietly, or raise
FetchOutcomes == {"written", "nothing", "raises"}

\* line 20: the existence check
DlCheck(t) ==
    /\ pc[t] = "dl_check"
    /\ IF ArtifactAbsent(file)
       THEN /\ pc' = [pc EXCEPT ![t] = "dl_fetch"]
            /\ UNCHANGED << dlres, why >>
       ELSE /\ pc' = [pc EXCEPT ![t] = "dl_ret"]
            /\ dlres' = [dlres EXCEPT ![t] = "True"]
            /\ why' = [why EXCEPT ![t] = "present"]
    /\ UNCHANGED << file, polls, nfetch >>
    /\ UNCHANGED << envVars, globals, site, model, result, calls, loadCount, everTrue, late >>

\* lines 23-27: gdown.download inside try/except Exception
DlFetch(t) ==
    /\ pc[t] = "dl_fetch"
    /\ nfetch' = [nfetch EXCEPT ![t] = @ + 1]
    /\ \E o \in FetchOutcomes :
          /\ file' = IF o = "written" THEN "nonzero" ELSE file
          /\ IF o = "raises"
             THEN /\ pc' = [pc EXCEPT ![t] = "dl_ret"]
                  /\ dlres' = [dlres EXCEPT ![t] = OnFetchException]
                  /\ why' = [why EXCEPT ![t] = "fetch raised"]
                  /\ UNCHANGED polls
             ELSE /\ pc' = [pc EXCEPT ![t] = "dl_poll"]
                  /\ polls' = [polls EXCEPT ![t] = 0]
                  /\ UNCHANGED << dlres, why >>
    /\ UNCHANGED << envVars, globals, site, model, result, calls, loadCount, everTrue, late >>

\* lines 30-36: one iteration of the poll loop (check, then sleep 1 s)
DlPoll(t) ==
    /\ pc[t] = "dl_poll"
    /\ IF ArtifactPresent(file)
       THEN /\ pc' = [pc EXCEPT ![t] = "dl_ret"]
            /\ dlres' = [dlres EXCEPT ![t] = "True"]
            /\ why' = [why EXCEPT ![t] = "polled"]
            /\ UNCHANGED polls
       ELSE /\ polls' = [polls EXCEPT ![t] = @ + 1]
            /\ IF polls[t] + 1 >= PollAttempts
               THEN /\ pc' = [pc EXCEPT ![t] = "dl_ret"]
                    /\ dlres' = [dlres EXCEPT ![t] = "False"]
                    /\ why' = [why EXCEPT ![t] = "timeout"]
               ELSE UNCHANGED << pc, dlres, why >>
    /\ UNCHANGED << file, nfetch >>
    /\ UNCHANGED << envVars, globals, site, model, result, calls, loadCount, everTrue, late >>

(***************************************************************************)
(* main.py: ensure_model_loaded, one step per statement.  Nothing in the   *)
(* function takes a lock, so the steps of different request threads        *)
(* interleave freely (waitress serves each request on a worker thread).    *)
(***************************************************************************)
\* a request thread enters ensure_model_loaded
Call(t) ==
    /\ pc[t] = "idle"
    /\ calls < MaxCalls
    /\ calls' = calls + 1
    /\ pc' = [pc EXCEPT ![t] = "L106"]
    /\ result' = [result EXCEPT ![t] = None]
    /\ nfetch' = [nfetch EXCEPT ![t] = 0]
    /\ UNCHANGED << file, envVars, globals, site, dlres, polls, model, loadCount,
                    everTrue, late, why >>

\* main.py:106-110: if MODEL_LOADED: return True; else call ensure_model_downloaded
L106(t) ==
    /\ pc[t] = "L106"
    /\ IF MODEL_LOADED
       THEN /\ result' = [result EXCEPT ![t] = "True"]
            /\ pc' = [pc EXCEPT ![t] = "idle"]
            /\ UNCHANGED << site, late >>
       ELSE /\ pc' = [pc EXCEPT ![t] = "dl_check"]
            /\ site' = [site EXCEPT ![t] = 1]
            /\ late' = [late EXCEPT ![t] = everTrue]
            /\ UNCHANGED result
    /\ UNCHANGED << file, envVars, globals, dlres, polls, model, calls, loadCount,
                    everTrue, nfetch, why >>

\* ensure_model_downloaded returns to its caller:
\*   main.py:110-113 (site 1), outside any try block of ensure_model_loaded;
\*   model_utils.py:67-70 (site 2), inside load_vitamin_model's try block
DlRet(t) ==
    /\ pc[t] = "dl_ret"
    /\ everTrue' = (everTrue \/ dlres[t] = "True")
    /\ polls' = [polls EXCEPT ![t] = 0]
    /\ IF site[t] = 1
       THEN IF dlres[t] = "True"
            THEN /\ pc' = [pc EXCEPT ![t] = "L60"]
                 /\ UNCHANGED << result, model >>
            ELSE /\ pc' = [pc EXCEPT ![t] = "idle"]
                 /\ result' = [result EXCEPT ![t] = dlres[t]]
                 /\ UNCHANGED model
       ELSE IF dlres[t] = "True"
            THEN /\ pc' = [pc EXCEPT ![t] = "L74"]
                 /\ UNCHANGED << result, model >>
            ELSE /\ pc' = [pc EXCEPT ![t] = "L116"]
                 /\ model' = [model EXCEPT ![t] = NoModel]
                 /\ UNCHANGED result
    /\ UNCHANGED << file, envVars, globals, site, dlres, calls, loadCount, late,
                    nfetch, why >>

\* model_utils.py:58-67: import tensorflow, then ensure_model_downloaded again
L60(t) ==
    /\ pc[t] = "L60"
    /\ \E importOk \in BOOLEAN :
          IF importOk
          THEN /\ pc' = [pc EXCEPT ![t] = "dl_check"]
               /\ site' = [site EXCEPT ![t] = 2]
               /\ late' = [late EXCEPT ![t] = everTrue]
               /\ UNCHANGED model
          ELSE /\ pc' = [pc EXCEPT ![t] = "L116"]
               /\ model' = [model EXCEPT ![t] = NoModel]
               /\ UNCHANGED << site, late >>
    /\ UNCHANGED << file, envVars, globals, dlres, polls, result, calls, loadCount,
                    everTrue, nfetch, why >>

\* model_utils.py:72-79: tf.keras.models.load_model builds a new instance, or
\* raises and load_vitamin_model returns None
L74(t) ==
    /\ pc[t] = "L74"
    /\ loadCount' = loadCount + 1
    /\ \E loadOk \in BOOLEAN :
          model' = [model EXCEPT ![t] = IF loadOk THEN loadCount + 1 ELSE NoModel]
    /\ pc' = [pc EXCEPT ![t] = "L116"]
    /\ UNCHANGED << file, envVars, globals, site, dlres, polls, result, calls,
                    everTrue, late, nfetch, why >>

\* main.py:116: vitamin_model = <value returned by load_vitamin_model>
L116(t) ==
    /\ pc[t] = "L116"
    /\ vitamin_model' = model[t]
    /\ pc' = [pc EXCEPT ![t] = "L117"]
    /\ UNCHANGED << file, envVars, class_indices, vitamin_mapping, MODEL_LOADED, site,
                    dlres, polls, model, result, calls, loadCount, everTrue, late,
                    nfetch, why >>

\* main.py:117: class_indices = load_class_indices(); an exception ends the call
\* in the except clause of lines 124-126
L117(t) ==
    /\ pc[t] = "L117"
    /\ IF LoadClassIndicesRaises(ciFile)
       THEN /\ result' = [result EXCEPT ![t] = "False"]
            /\ pc' = [pc EXCEPT ![t] = "idle"]
            /\ UNCHANGED class_indices
       ELSE /\ class_indices' = LoadClassIndices(ciFile)
            /\ pc' = [pc EXCEPT ![t] = "L118"]
            /\ UNCHANGED result
    /\ UNCHANGED << file, envVars, vitamin_model, vitamin_mapping, MODEL_LOADED, site,
                    dlres, polls, model, calls, loadCount, everTrue, late, nfetch, why >>

\* main.py:118: vitamin_mapping = load_mapping()
L118(t) ==
    /\ pc[t] = "L118"
    /\ IF LoadMappingRaises(csvFile)
       THEN /\ result' = [result EXCEPT ![t] = "False"]
            /\ pc' = [pc EXCEPT ![t] = "idle"]
            /\ UNCHANGED vitamin_mapping
       ELSE /\ vitamin_mapping' = LoadMapping(csvFile)
            /\ pc' = [pc EXCEPT ![t] = "L119"]
            /\ UNCHANGED result
    /\ UNCHANGED << file, envVars, vitamin_model, class_indices, MODEL_LOADED, site,
                    dlres, polls, model, calls, loadCount, everTrue, late, nfetch, why >>

\* main.py:119-120: if vitamin_model is None: raise RuntimeError (reads the global)
L119(t) ==
    /\ pc[t] = "L119"
    /\ IF vitamin_model = NoModel
       THEN /\ result' = [result EXCEPT ![t] = "False"]
            /\ pc' = [pc EXCEPT ![t] = "idle"]
       ELSE /\ pc' = [pc EXCEPT ![t] = "L121"]
            /\ UNCHANGED result
    /\ UNCHANGED << file, envVars, globals, site, dlres, polls, model, calls,
                    loadCount, everTrue, late, nfetch, why >>

\* main.py:121-123: MODEL_LOADED = True; return True
L121(t) ==
    /\ pc[t] = "L121"
    /\ MODEL_LOADED' = TRUE
    /\ result' = [result EXCEPT ![t] = "True"]
    /\ pc' = [pc EXCEPT ![t] = "idle"]
    /\ UNCHANGED << file, envVars, vitamin_model, class_indices, vitamin_mapping, site,
                    dlres, polls, model, calls, loadCount, everTrue, late, nfetch, why >>

\* the operator puts the metadata files of the deployment in place
Deploy ==
    /\ ~ciFile.exists \/ ~csvFile.exists
    /\ ciFile' = ScenarioVocab
    /\ csvFile' = ScenarioCsv
    /\ UNCHANGED << file, globals, pc, site, dlres, polls, model, result, calls,
                    loadCount, everTrue, late, nfetch, why >>

\* A token string as jwt.decode sees it.  kind: "empty" (the empty string),
\* "garbage" (not a JWT), "forged" (a JWT whose HS256 signature does not verify
\* under SECRET_KEY) or "signed"; exp: "past", "future", or "none" when the
\* payload has no exp claim; email: the email claim, "" when the payload has none
NoToken == [kind |-> "empty", exp |-> "none", email |-> ""]

\* The Authorization header: present or not, the number of parts
\* split(" ") gives, and parts[1] when there are two
NoHeader == [present |-> FALSE, parts |-> 0, token |-> NoToken]

\* names under which images are uploaded
Filenames == {"f1", "f2"}

\* a worker thread serving nothing
NoRequest ==
    [op |-> "none", header |-> NoHeader, user |-> "", filename |-> "f1",
     image |-> NoImage, id |-> 0, res |-> NoResult]

\* no request in flight, nothing uploaded yet
InitWeb ==
    /\ uploads = [f \in Filenames |-> NoImage]
    /\ req = [t \in Threads |-> NoRequest]

\* main.py:96-99 at import, no request served yet, empty tables (db.create_all)
InitProgram ==
    /\ vitamin_model = NoModel
    /\ class_indices = NoIndices
    /\ vitamin_mapping = NoMapping
    /\ MODEL_LOADED = FALSE
    /\ UserVitamin = {}
    /\ serial = 0
    /\ expected = {}
    /\ last = [op |-> "none", user |-> "", id |-> 0, image |-> NoImage, status |-> 0,
                msg |-> "", body |-> NoResult, records |-> << >>]
    /\ out = [fn |-> "none"]

\* no request thread is inside ensure_model_loaded
InitThreads ==
    /\ pc = [t \in Threads |-> "idle"]
    /\ site = [t \in Threads |-> 1]
    /\ dlres = [t \in Threads |-> "False"]
    /\ polls = [t \in Threads |-> 0]
    /\ model = [t \in Threads |-> NoModel]
    /\ result = [t \in Threads |-> None]
    /\ calls = 0
    /\ loadCount = 0
    /\ everTrue = FALSE
    /\ late = [t \in Threads |-> FALSE]
    /\ nfetch = [t \in Threads |-> 0]
    /\ why = [t \in Threads |-> "none"]

InitLoad ==
    /\ InitProgram
    /\ InitWeb
    /\ Users = {}
    /\ file \in {"absent", "zero", "nonzero"}
    /\ ciFile \in {MissingVocab, ScenarioVocab}
    /\ csvFile \in {MissingCsv, ScenarioCsv}
    /\ InitThreads

LoadStep ==
    \/ \E t \in Threads : Call(t)
    \/ \E t \in Threads : L106(t)
    \/ \E t \in Threads : DlCheck(t)
    \/ \E t \in Threads : DlFetch(t)
    \/ \E t \in Threads : DlPoll(t)
    \/ \E t \in Threads : DlRet(t)
    \/ \E t \in Threads : L60(t)
    \/ \E t \in Threads : L74(t)
    \/ \E t \in Threads : L116(t)
    \/ \E t \in Threads : L117(t)
    \/ \E t \in Threads : L118(t)
    \/ \E t \in Threads : L119(t)
    \/ \E t \in Threads : L121(t)
    \/ Deploy

NextLoad == LoadStep /\ UNCHANGED << dbVars, out, webVars >>

SpecLoad == InitLoad /\ [][NextLoad]_vars

(***************************************************************************)
(* Properties of the load path (SpecLoad)                                  *)
(***************************************************************************)
InDownload(t) == pc[t] \in {"dl_check", "dl_fetch", "dl_poll", "dl_ret"}

\* past the MODEL_LOADED check of line 106 and not yet returned
InLoad(t) == pc[t] \notin {"idle", "L106"}

\* C1: single flight.  At most one thread at a time is between the MODEL_LOADED
\* check and its return (no late caller starts a second load while one is in
\* flight), and no two threads hold two different deserialized instances.
C1_SingleFlight ==
    /\ Cardinality({t \in Threads : InLoad(t)}) <= 1
    /\ \A t, u \in Threads :
          (pc[t] = "L116" /\ pc[u] = "L116" /\ model[t] # NoModel /\ model[u] # NoModel)
              => model[t] = model[u]

\* C2: ensure_model_downloaded is idempotent.  A call that begins after some call
\* has returned True goes from the existence check straight to returning True and
\* never reaches the fetch or the poll loop; the two calls one ensure_model_loaded
\* makes (main.py:110, model_utils.py:67) issue at most one fetch in total.
C2_Idempotent ==
    \A t \in Threads :
        /\ (InDownload(t) /\ late[t]) =>
              /\ pc[t] \in {"dl_check", "dl_ret"}
              /\ pc[t] = "dl_ret" => (dlres[t] = "True" /\ why[t] = "present")
        /\ nfetch[t] <= 1

\* C2 witness: a thread's second call returns True on the existence check after
\* its first call fetched the artifact and returned True
C2_Witness ==
    \E t \in Threads :
        /\ pc[t] = "dl_ret" /\ site[t] = 2 /\ late[t]
        /\ dlres[t] = "True" /\ why[t] = "present" /\ nfetch[t] = 1

\* C3: every ensure_model_downloaded call ends with a boolean, never an exception;
\* True only while the artifact exists with nonzero size; False exactly when the
\* fetch raised or the poll loop ran out, and it runs out only after PollAttempts
\* (120, at least 60) checks found no nonzero-size file.
C3_BooleanOutcome ==
    \A t \in Threads :
        pc[t] = "dl_ret" =>
            /\ dlres[t] \in {"True", "False"}
            /\ dlres[t] = "True" => (file = "nonzero" /\ why[t] \in {"present", "polled"})
            /\ dlres[t] = "False" => why[t] \in {"fetch raised", "timeout"}
            /\ why[t] = "fetch raised" => dlres[t] = "False"
            /\ why[t] = "timeout" =>
                  (dlres[t] = "False" /\ polls[t] = PollAttempts /\ PollAttempts >= 60)

\* C3 witness: a call returns False after the last poll, the file still zero bytes
C3_Witness ==
    \E t \in Threads :
        /\ pc[t] = "dl_ret" /\ dlres[t] = "False" /\ why[t] = "timeout"
        /\ polls[t] = PollAttempts /\ file = "zero"

\* C4: a load failure leaves the runtime Failed and retried on the next access.
\* No call ends in an exception, and once a call has reported failure the
\* runtime is never left claiming Ready without a handle: while vitamin_model is
\* None, MODEL_LOADED is False, so the next call re-attempts the load.
C4_FailedIsRetried ==
    /\ \A t \in Threads : result[t] # "exception"
    /\ ((\E t \in Threads : result[t] = "False") /\ vitamin_model = NoModel)
          => ~MODEL_LOADED

\* C5: from the first Ready state on, Ready is never left and the handle is the
\* same non-null model, vocabulary and mapping.
C5_ReadyIsStable ==
    [][MODEL_LOADED =>
          /\ MODEL_LOADED'
          /\ vitamin_model # NoModel
          /\ vitamin_model' = vitamin_model
          /\ class_indices' = class_indices
          /\ vitamin_mapping' = vitamin_mapping]_vars

(***************************************************************************)
(* model/model_utils.py: the inference pipeline, as pure functions.        *)
(* An uploaded image is [decodable, preds]: whether cv2.imread reads it,   *)
(* and the probability vector (in percent) model.predict returns for it.   *)
(***************************************************************************)
Max(S) == CHOOSE x \in S : \A y \in S : y <= x

\* int(np.argmax(preds, axis=1)[0]): the first position of the maximum, from 0
ArgMax(preds) ==
    (CHOOSE i \in 1..Len(preds) :
        /\ \A j \in 1..Len(preds) : preds[j] <= preds[i]
        /\ \A j \in 1..(i - 1) : preds[j] < preds[i]) - 1

\* float(np.max(preds))
MaxOf(preds) == Max({preds[i] : i \in 1..Len(preds)})

Raise(e) == [ok |-> FALSE, exc |-> e, predicted_class |-> << >>, confidence |-> 0]

\* Mutant of PredictDisease: the bounds check is lost and an index past the
\* vocabulary is clamped to the last label, so a guess is returned
PredictDisease_Clamped(m, ci, image) ==
    IF m = NoModel THEN Raise("ValueError: Model not loaded.")
    ELSE IF ~image.decodable THEN Raise("ValueError: Could not read image")
    ELSE IF ~ci.loaded THEN Raise("AttributeError")
    ELSE LET predicted_index == ArgMax(image.preds)
             class_labels == ci.keys
         IN  IF class_labels = << >>
             THEN Raise("IndexError")
             ELSE [ok |-> TRUE, exc |-> "",
                   predicted_class |->
                       class_labels[IF predicted_index >= Len(class_labels)
                                    THEN Len(class_labels) ELSE predicted_index + 1],
                   confidence |-> MaxOf(image.preds)]

\* predict_disease(model, class_indices, image_path)
PredictDisease(m, ci, image) ==
    IF m = NoModel THEN Raise("ValueError: Model not loaded.")
    ELSE IF ~image.decodable THEN Raise("ValueError: Could not read image")
    ELSE IF ~ci.loaded THEN Raise("AttributeError")
    ELSE LET predicted_index == ArgMax(image.preds)
             class_labels == ci.keys
         IN  IF predicted_index >= Len(class_labels)
             THEN Raise("IndexError")
             ELSE [ok |-> TRUE, exc |-> "",
                   predicted_class |-> class_labels[predicted_index + 1],
                   confidence |-> MaxOf(image.preds)]

\* mapping.get(predicted_disease.lower(), "No mapping found")
Lookup(mapping, label) ==
    IF Lower(label) \in DOMAIN mapping.map
    THEN mapping.map[Lower(label)]
    ELSE NoMappingFound

\* predict_vitamin_deficiency(model, class_indices, mapping, image_path)
PredictVitaminDeficiency(m, ci, mapping, image) ==
    LET pd == PredictDisease(m, ci, image)
    IN  IF ~pd.ok THEN RaiseV(pd.exc)
        ELSE IF ~mapping.loaded THEN RaiseV("AttributeError")
        ELSE [ok |-> TRUE, exc |-> "",
              predicted_disease |-> pd.predicted_class,
              mapped_deficiency |-> Lookup(mapping, pd.predicted_class),
              confidence |-> pd.confidence]

(***************************************************************************)
(* Inputs of the pure functions                                            *)
(***************************************************************************)
\* longest label and deficiency text
MaxLabelLen == 2

\* most rows of a mapping table
MaxRows == 2

\* most labels of a vocabulary
MaxVocab == 2

\* most outputs of the classifier
MaxOut == 2

Chars == {"A", "a", " "}

Strings == UNION {[1..n -> Chars] : n \in 0..MaxLabelLen}

Deficiencies == {<< "D" >>, << " ", "d" >>}

\* a disease name or a vocabulary label has at least one letter
Labels == {s \in Strings : Strip(s) # << >>}

TableRows == Labels \X Deficiencies

Tables(n) ==
    {[exists |-> TRUE, cols |-> ExpectedCols, rows |-> r] :
        r \in UNION {[1..k -> TableRows] : k \in 0..n}}

\* dict keys are distinct
Vocabularies ==
    {[exists |-> TRUE, keys |-> v] :
        v \in {w \in UNION {[1..k -> Labels] : k \in 0..MaxVocab} :
                  \A i, j \in 1..Len(w) : w[i] = w[j] => i = j}}

\* probabilities in percent
Probs == {13, 87}

PredVectors == UNION {[1..n -> Probs] : n \in 1..MaxOut}

AModel == 1

\* the label normalisation of the mapper: trim, then lowercase
Normalize(s) == Lower(Strip(s))

\* two labels looked up in the table loaded from csv
ApplyLookup ==
    /\ out.fn = "none"
    /\ \E csv \in Tables(MaxRows), a \in Labels, b \in Labels :
        /\ Normalize(a) = Normalize(b)
        /\ out' = [fn |-> "lookup", csv |-> csv, a |-> a, b |-> b,
                   ra |-> Lookup(LoadMapping(csv), a),
                   rb |-> Lookup(LoadMapping(csv), b)]

\* one prediction with a ready handle
ApplyPredict ==
    /\ out.fn = "none"
    /\ \E ci \in Vocabularies, csv \in Tables(1), p \in PredVectors :
          out' = [fn |-> "predict", ci |-> ci, csv |-> csv, preds |-> p,
                res |-> PredictVitaminDeficiency(AModel, LoadClassIndices(ci),
                            LoadMapping(csv), [decodable |-> TRUE, preds |-> p])]

InitPredict ==
    /\ InitProgram
    /\ InitWeb
    /\ Users = {}
    /\ file = "nonzero"
    /\ ciFile = ScenarioVocab
    /\ csvFile = ScenarioCsv
    /\ InitThreads

NextPredict ==
    /\ \/ ApplyLookup
       \/ ApplyPredict
    /\ UNCHANGED << file, envVars, globals, threadVars, calls, loadCount, dbVars, webVars >>

SpecPredict == InitPredict /\ [][NextPredict]_vars

(***************************************************************************)
(* Properties of the pipeline (SpecPredict)                                *)
(***************************************************************************)
\* C7: lookup normalises the label by trim and lowercase, as load_mapping does
\* for the table keys: two labels that differ only in letter case or in
\* leading/trailing whitespace get the same deficiency string.
C7_LookupNormalizes ==
    (out.fn = "lookup" /\ Normalize(out.a) = Normalize(out.b)) => out.ra = out.rb

\* the lookup of the mapper as specified: the entry of the last row whose
\* trimmed, lowercased disease equals the trimmed, lowercased label
SpecLookup(csv, label) ==
    LET hits == {i \in 1..Len(csv.rows) : Normalize(csv.rows[i][1]) = Normalize(label)}
    IN  IF hits = {} THEN NoMappingFound ELSE Strip(csv.rows[Max(hits)][2])

\* C8: with the arg-max index inside the vocabulary, predict returns the label
\* at that index, the probability at that index, and the table entry of that
\* label or "No mapping found" when the table has none; it never fails.
C8_PredictResult ==
    (out.fn = "predict" /\ ArgMax(out.preds) < Len(out.ci.keys)) =>
        /\ out.res.ok
        /\ out.res.predicted_disease = out.ci.keys[ArgMax(out.preds) + 1]
        /\ out.res.confidence = out.preds[ArgMax(out.preds) + 1]
        /\ out.res.mapped_deficiency = SpecLookup(out.csv, out.res.predicted_disease)

(***************************************************************************)
(* main.py: the HTTP handlers, one action per request.  Requests are       *)
(* served one at a time here; current_user is the user of the verified     *)
(* token.                                                                  *)
(***************************************************************************)
\* POST /detect_vitamin requests served over a run of the API specification
MaxRequests == 2

UserEmails == {"u1", "u2"}

\* datetime.now().strftime("%Y-%m-%d %H:%M:%S")
Dates == {"d1", "d2"}

Rickets == << "R", "i", "c", "k", "e", "t", "s" >>

\* the class_indices.json files of the deployments considered
ApiVocabs ==
    {[exists |-> TRUE, keys |-> k] :
        k \in {<< >>, << Acne >>, << Acne, Scurvy >>, << Rickets, Acne >>}}

\* request.files["image"]: none, one cv2.imread cannot read, or a readable one
Images ==
    {NoImage, [present |-> TRUE, decodable |-> FALSE, preds |-> << >>]}
        \cup {[present |-> TRUE, decodable |-> TRUE, preds |-> p] : p \in PredVectors}

\* ensure_model_downloaded run alone: the poll loop sees the file the fetch left
DownloadSeq(f, o) ==
    IF ~ArtifactAbsent(f) THEN [ok |-> "True", file |-> f]
    ELSE IF o = "raises" THEN [ok |-> OnFetchException, file |-> f]
    ELSE LET f2 == IF o = "written" THEN "nonzero" ELSE f
         IN  [ok |-> IF ArtifactPresent(f2) THEN "True" ELSE "False", file |-> f2]

\* ensure_model_loaded run alone, from globals g = [vm, ci, map, ml]; o is what
\* gdown.download does, importOk and loadOk whether tensorflow imports and
\* load_model succeeds, inst the instance load_model would build
EnsureModelLoaded(g, f, o, importOk, loadOk, inst) ==
    IF g.ml THEN [ret |-> "True", g |-> g, file |-> f, loads |-> 0]
    ELSE LET d == DownloadSeq(f, o)
         IN  IF d.ok # "True"
             THEN [ret |-> d.ok, g |-> g, file |-> d.file, loads |-> 0]
             ELSE LET loads == IF importOk THEN 1 ELSE 0
                      m == IF importOk /\ loadOk THEN inst ELSE NoModel
                      g1 == [g EXCEPT !.vm = m]
                      g2 == [g1 EXCEPT !.ci = LoadClassIndices(ciFile)]
                      g3 == [g2 EXCEPT !.map = LoadMapping(csvFile)]
                  IN  IF LoadClassIndicesRaises(ciFile)
                      THEN [ret |-> "False", g |-> g1, file |-> d.file, loads |-> loads]
                      ELSE IF LoadMappingRaises(csvFile)
                      THEN [ret |-> "False", g |-> g2, file |-> d.file, loads |-> loads]
                      ELSE IF m = NoModel
                      THEN [ret |-> "False", g |-> g3, file |-> d.file, loads |-> loads]
                      ELSE [ret |-> "True", g |-> [g3 EXCEPT !.ml = TRUE],
                            file |-> d.file, loads |-> loads]

\* INTEGER PRIMARY KEY of SQLite: one more than the largest id in the table
NextId(T) == IF T = {} THEN 1 ELSE Max({r.id : r \in T}) + 1

\* Mutant of NewRow: the predicted disease is stored instead of the deficiency
NewRow_Disease(T, u, res, date, n) ==
    [id |-> NextId(T), user_email |-> u, vitamin |-> res.predicted_disease,
     date |-> date, seq |-> n]

\* main.py:252-256: UserVitamin(user_email=..., vitamin=..., date=...); seq is
\* history (the n-th insert), not a column
NewRow(T, u, res, date, n) ==
    [id |-> NextId(T), user_email |-> u, vitamin |-> res.mapped_deficiency,
     date |-> date, seq |-> n]

RECURSIVE ById(_)
\* a table scan of SQLite returns the rows in rowid order
ById(S) ==
    IF S = {} THEN << >>
    ELSE LET r == CHOOSE x \in S : \A y \in S : x.id <= y.id
         IN  << r >> \o ById(S \ {r})

\* UserVitamin.query.filter_by(user_email=current_user.email).all()
RecordsOf(T, u) == ById({r \in T : r.user_email = u})

\* Mutant of OwnedRecord: the record is looked up by id alone
OwnedRecord_AnyOwner(T, u, id) == {r \in T : r.id = id}

\* UserVitamin.query.filter_by(id=id, user_email=current_user.email).first()
OwnedRecord(T, u, id) == {r \in T : r.id = id /\ r.user_email = u}

Response(op, u, id, image, status, msg, body, records) ==
    [op |-> op, user |-> u, id |-> id, image |-> image, status |-> status,
     msg |-> msg, body |-> body, records |-> records]

\* main.py:225-264, POST /detect_vitamin
DetectVitamin(u, image, date) ==
    /\ calls < MaxRequests
    /\ calls' = calls + 1
    /\ \E o \in (IF ~MODEL_LOADED /\ ArtifactAbsent(file) THEN FetchOutcomes ELSE {"nothing"}),
          loadOk \in (IF MODEL_LOADED THEN {TRUE} ELSE BOOLEAN),
          dbOk \in (IF image.present /\ image.decodable THEN BOOLEAN ELSE {TRUE}) :
       \E e \in {EnsureModelLoaded(
                    [vm |-> vitamin_model, ci |-> class_indices,
                     map |-> vitamin_mapping, ml |-> MODEL_LOADED],
                    file, o, loadOk, loadOk, loadCount + 1)} :
       \E res \in {PredictVitaminDeficiency(e.g.vm, e.g.ci, e.g.map, image)} :
          /\ vitamin_model' = e.g.vm
          /\ class_indices' = e.g.ci
          /\ vitamin_mapping' = e.g.map
          /\ MODEL_LOADED' = e.g.ml
          /\ file' = e.file
          /\ loadCount' = loadCount + e.loads
          /\ IF e.ret = "False"
             THEN /\ last' = Response("detect", u, 0, image, 500,
                                      "Model not available on server", NoResult, << >>)
                  /\ UNCHANGED << UserVitamin, serial, expected >>
             ELSE IF e.ret = "exception"
             THEN /\ last' = Response("detect", u, 0, image, 500,
                                      "Server error during prediction", NoResult, << >>)
                  /\ UNCHANGED << UserVitamin, serial, expected >>
             ELSE IF ~image.present
             THEN /\ last' = Response("detect", u, 0, image, 400,
                                      "No image uploaded", NoResult, << >>)
                  /\ UNCHANGED << UserVitamin, serial, expected >>
             ELSE IF ~res.ok
             THEN /\ last' = Response("detect", u, 0, image, 500,
                                      "Server error during prediction", res, << >>)
                  /\ UNCHANGED << UserVitamin, serial, expected >>
             ELSE IF ~dbOk
             THEN /\ last' = Response("detect", u, 0, image, 500,
                                      "Server error during prediction",
                                      RaiseV("OperationalError"), << >>)
                  /\ UNCHANGED << UserVitamin, serial, expected >>
             ELSE /\ last' = Response("detect", u, 0, image, 200, "ok", res, << >>)
                  /\ UserVitamin' =
                         UserVitamin \cup {NewRow(UserVitamin, u, res, date, serial + 1)}
                  /\ serial' = serial + 1
                  /\ expected' = expected \cup
                         {[id |-> NextId(UserVitamin), user_email |-> u,
                           vitamin |-> res.mapped_deficiency, date |-> date,
                           seq |-> serial + 1]}
    /\ UNCHANGED << envVars, threadVars, out, webVars >>

\* main.py:270-274, GET /user_vitamins
UserVitamins(u) ==
    /\ last' = Response("list", u, 0, NoImage, 200, "ok", NoResult, RecordsOf(UserVitamin, u))
    /\ UNCHANGED << file, envVars, globals, threadVars, calls, loadCount,
                    UserVitamin, serial, expected, out, webVars >>

\* main.py:277-285, DELETE /delete_vitamin/<id>; a failed commit leaves the row
DeleteVitamin(u, id) ==
    /\ \E dbOk \in BOOLEAN :
          LET record == OwnedRecord(UserVitamin, u, id)
          IN  IF record = {}
              THEN /\ last' = Response("delete", u, id, NoImage, 404,
                                       "Vitamin record not found", NoResult, << >>)
                   /\ UNCHANGED << UserVitamin, expected >>
              ELSE IF ~dbOk
              THEN /\ last' = Response("delete", u, id, NoImage, 500,
                                       "Internal Server Error", NoResult, << >>)
                   /\ UNCHANGED << UserVitamin, expected >>
              ELSE /\ last' = Response("delete", u, id, NoImage, 200,
                                       "Deleted successfully", NoResult, << >>)
                   /\ UserVitamin' = UserVitamin \ record
                   /\ expected' = {x \in expected : ~(x.id = id /\ x.user_email = u)}
    /\ UNCHANGED << file, envVars, globals, threadVars, calls, loadCount, serial, out,
                    webVars >>

InitApi ==
    /\ InitProgram
    /\ InitWeb
    /\ Users = UserEmails
    /\ InitThreads
    /\ file \in {"absent", "nonzero"}
    /\ ciFile \in ApiVocabs
    /\ csvFile = ScenarioCsv

NextApi ==
    \/ \E u \in UserEmails, image \in Images, date \in Dates : DetectVitamin(u, image, date)
    \/ \E u \in UserEmails : UserVitamins(u)
    \/ \E u \in UserEmails, id \in 1..(MaxRequests + 1) : DeleteVitamin(u, id)

SpecApi == InitApi /\ [][NextApi]_vars

(***************************************************************************)
(* Properties of the handlers (SpecApi)                                    *)
(***************************************************************************)
Range(q) == {q[i] : i \in 1..Len(q)}

\* C6: a prediction whose arg-max index does not address a vocabulary position
\* (index >= length) fails with IndexError: the response carries no label and
\* the ledger is the same before and after the request.
C6_IndexOutOfRange ==
    [][(/\ calls' # calls
        /\ MODEL_LOADED'
        /\ last'.image.present /\ last'.image.decodable
        /\ ArgMax(last'.image.preds) >= Len(class_indices'.keys))
       => (/\ last'.status = 500
           /\ last'.body.exc = "IndexError"
           /\ last'.body.predicted_disease = << >>
           /\ UserVitamin' = UserVitamin
           /\ serial' = serial)]_vars

\* C6 witness: a request failed with IndexError on an index equal to the
\* vocabulary length while the ledger held a record
C6_Witness ==
    /\ last.op = "detect" /\ last.status = 500 /\ last.body.exc = "IndexError"
    /\ ArgMax(last.image.preds) = Len(class_indices.keys)
    /\ UserVitamin # {}

\* C9: ownership scoping of the ledger.  After a recorded prediction of u the
\* listing of u ends with the new record; a listing of u holds exactly the
\* records of u, in insertion order; a delete by v of an id whose record belongs
\* to another user answers 404 and leaves every record intact.
C9_OwnershipScoping ==
    [][/\ (calls' # calls /\ last'.status = 200) =>
             LET l == RecordsOf(UserVitamin', last'.user)
             IN  /\ l # << >>
                 /\ l[Len(l)].seq = serial'
                 /\ l[Len(l)].user_email = last'.user
                 /\ l[Len(l)].vitamin = last'.body.mapped_deficiency
                 /\ l[Len(l)] \notin UserVitamin
       /\ last'.op = "list" =>
             /\ \A i \in 1..Len(last'.records) : last'.records[i].user_email = last'.user
             /\ Range(last'.records) = {r \in UserVitamin : r.user_email = last'.user}
             /\ \A i, j \in 1..Len(last'.records) :
                   i < j => last'.records[i].seq < last'.records[j].seq
       /\ (/\ last'.op = "delete"
           /\ \E r \in UserVitamin : r.id = last'.id /\ r.user_email # last'.user)
             => (last'.status = 404 /\ UserVitamin' = UserVitamin)]_vars

\* C9 witness: a delete by a user who does not own the record answered 404 and
\* the record is still there
C9_Witness ==
    /\ last.op = "delete" /\ last.status = 404
    /\ \E r \in UserVitamin : r.id = last.id /\ r.user_email # last.user

\* C10: the ledger holds exactly one record for each prediction answered 200 and
\* not deleted by its owner since, with the identity, the mapped_deficiency and
\* the date of that request; nothing else adds, changes or removes a record.
C10_LedgerIsHistory ==
    /\ UserVitamin = expected
    /\ \A r, q \in UserVitamin : (r.seq = q.seq \/ r.id = q.id) => r = q
    /\ Cardinality(UserVitamin) <= serial

\* C10 witness: of two recorded predictions one is left after its owner deleted
\* the other
C10_Witness ==
    /\ last.op = "delete" /\ last.status = 200
    /\ serial = 2 /\ Cardinality(UserVitamin) = 1

(***************************************************************************)
(* main.py: the HTTP layer with its worker threads (waitress).  Every      *)
(* route of the pipeline and the ledger is wrapped in token_required; the  *)
(* steps of detect_vitamin interleave with those of other requests.  The   *)
(* load inside a request is taken as one step here (its interleavings are  *)
(* those of SpecLoad).                                                     *)
(***************************************************************************)
\* jwt.decode(token, SECRET_KEY, algorithms=["HS256"]): the signature is
\* verified first, then the exp claim when there is one
JwtDecode(token) ==
    IF token.kind # "signed" THEN "InvalidTokenError"
    ELSE IF token.exp = "past" THEN "ExpiredSignatureError"
    ELSE "payload"

Verdict(pass, status, msg, user) ==
    [pass |-> pass, status |-> status, msg |-> msg, user |-> user]

\* Mutant of TokenRequired: the user named by the token is not looked up
TokenRequired_NoUserLookup(header, users) ==
    LET token == IF header.present /\ header.parts = 2 THEN header.token ELSE NoToken
    IN  IF token.kind = "empty" THEN Verdict(FALSE, 401, "Missing token", "")
        ELSE IF JwtDecode(token) = "ExpiredSignatureError"
        THEN Verdict(FALSE, 401, "Token expired", "")
        ELSE IF JwtDecode(token) = "InvalidTokenError"
        THEN Verdict(FALSE, 401, "Invalid token", "")
        ELSE IF token.email = "" THEN Verdict(FALSE, 500, "Internal Server Error", "")
        ELSE Verdict(TRUE, 0, "", token.email)

\* main.py:132-155, the decorator up to the call of the wrapped handler
TokenRequired(header, users) ==
    LET token == IF header.present /\ header.parts = 2 THEN header.token ELSE NoToken
    IN  IF token.kind = "empty" THEN Verdict(FALSE, 401, "Missing token", "")
        ELSE IF JwtDecode(token) = "ExpiredSignatureError"
        THEN Verdict(FALSE, 401, "Token expired", "")
        ELSE IF JwtDecode(token) = "InvalidTokenError"
        THEN Verdict(FALSE, 401, "Invalid token", "")
        \* data["email"] raises KeyError, which no except clause catches
        ELSE IF token.email = "" THEN Verdict(FALSE, 500, "Internal Server Error", "")
        ELSE IF token.email \notin users THEN Verdict(FALSE, 404, "User not found", "")
        ELSE Verdict(TRUE, 0, "", token.email)

\* token strings sent by clients; "u3" is the email of no user
Tokens ==
    {NoToken,
     [kind |-> "garbage", exp |-> "none", email |-> ""],
     [kind |-> "forged", exp |-> "future", email |-> "u1"],
     [kind |-> "signed", exp |-> "past", email |-> "u1"],
     [kind |-> "signed", exp |-> "future", email |-> ""],
     [kind |-> "signed", exp |-> "future", email |-> "u3"],
     [kind |-> "signed", exp |-> "future", email |-> "u1"],
     [kind |-> "signed", exp |-> "future", email |-> "u2"]}

\* Authorization headers: none, one part ("<token>"), three parts, or two
Headers ==
    {NoHeader,
     [present |-> TRUE, parts |-> 1, token |-> NoToken],
     [present |-> TRUE, parts |-> 3, token |-> NoToken]}
        \cup {[present |-> TRUE, parts |-> 2, token |-> k] : k \in Tokens}

\* two images the classifier tells apart
ImageAcne == [present |-> TRUE, decodable |-> TRUE, preds |-> << 87, 13 >>]

ImageScurvy == [present |-> TRUE, decodable |-> TRUE, preds |-> << 13, 87 >>]

Request(op, header, filename, image, id) ==
    [op |-> op, header |-> header, user |-> "", filename |-> filename,
     image |-> image, id |-> id, res |-> NoResult]

\* the requests clients send
Requests ==
    {Request("detect", h, f, i, 0) :
        h \in Headers, f \in Filenames, i \in {ImageAcne, ImageScurvy}}
      \cup {Request("list", h, "f1", NoImage, 0) : h \in Headers}
      \cup {Request("delete", h, "f1", NoImage, id) : h \in Headers, id \in 1..2}

\* the prediction requests of logged-in users
DetectRequests ==
    {r \in Requests : r.op = "detect" /\ TokenRequired(r.header, UserEmails).pass}

\* datetime.datetime.now().strftime(...): the clock does not matter here
Now == "d1"

\* detect requests accepted by the server and not yet at ensure_model_loaded
Waiting == {t \in Threads : pc[t] = "auth" /\ req[t].op = "detect"}

\* a worker thread takes a request off the queue
Arrive(t, R) ==
    /\ pc[t] = "idle"
    /\ \E r \in R :
          /\ r.op = "detect" => calls + Cardinality(Waiting) < MaxRequests
          /\ req' = [req EXCEPT ![t] = r]
    /\ pc' = [pc EXCEPT ![t] = "auth"]
    /\ UNCHANGED << file, envVars, globals, site, dlres, polls, model, result, calls,
                    loadCount, everTrue, late, nfetch, why, dbVars, out, Users, uploads >>

\* the thread is done with its request
Done(t) ==
    /\ pc' = [pc EXCEPT ![t] = "idle"]
    /\ req' = [req EXCEPT ![t] = NoRequest]

\* main.py:141-152: token_required answers without calling the handler
Reject(t) ==
    /\ pc[t] = "auth"
    /\ LET v == TokenRequired(req[t].header, Users)
       IN  /\ ~v.pass
           /\ last' = Response(req[t].op, "", req[t].id, NoImage, v.status, v.msg,
                               NoResult, << >>)
    /\ Done(t)
    /\ UNCHANGED << file, envVars, globals, site, dlres, polls, model, result, calls,
                    loadCount, everTrue, late, nfetch, why, UserVitamin, serial,
                    expected, out, Users, uploads >>

\* main.py:270-274 behind token_required
ListRecords(t) ==
    /\ pc[t] = "auth" /\ req[t].op = "list"
    /\ LET v == TokenRequired(req[t].header, Users)
       IN  /\ v.pass
           /\ last' = Response("list", v.user, 0, NoImage, 200, "ok", NoResult,
                               RecordsOf(UserVitamin, v.user))
    /\ Done(t)
    /\ UNCHANGED << file, envVars, globals, site, dlres, polls, model, result, calls,
                    loadCount, everTrue, late, nfetch, why, UserVitamin, serial,
                    expected, out, Users, uploads >>

\* main.py:277-285 behind token_required
DeleteRecord(t) ==
    /\ pc[t] = "auth" /\ req[t].op = "delete"
    /\ \E dbOk \in BOOLEAN :
          LET v == TokenRequired(req[t].header, Users)
              record == OwnedRecord(UserVitamin, v.user, req[t].id)
          IN  /\ v.pass
              /\ IF record = {}
                 THEN /\ last' = Response("delete", v.user, req[t].id, NoImage, 404,
                                          "Vitamin record not found", NoResult, << >>)
                      /\ UNCHANGED << UserVitamin, expected >>
                 ELSE IF ~dbOk
                 THEN /\ last' = Response("delete", v.user, req[t].id, NoImage, 500,
                                          "Internal Server Error", NoResult, << >>)
                      /\ UNCHANGED << UserVitamin, expected >>
                 ELSE /\ last' = Response("delete", v.user, req[t].id, NoImage, 200,
                                          "Deleted successfully", NoResult, << >>)
                      /\ UserVitamin' = UserVitamin \ record
                      /\ expected' =
                             {x \in expected : ~(x.id = req[t].id /\ x.user_email = v.user)}
    /\ Done(t)
    /\ UNCHANGED << file, envVars, globals, site, dlres, polls, model, result, calls,
                    loadCount, everTrue, late, nfetch, why, serial, out, Users, uploads >>

\* main.py:237-242 behind token_required: ensure_model_loaded, then the check
\* for an uploaded file
DetectLoad(t) ==
    /\ pc[t] = "auth" /\ req[t].op = "detect"
    /\ calls' = calls + 1
    /\ \E o \in (IF ~MODEL_LOADED /\ ArtifactAbsent(file) THEN FetchOutcomes ELSE {"nothing"}),
          loadOk \in (IF MODEL_LOADED THEN {TRUE} ELSE BOOLEAN) :
       \E v \in {TokenRequired(req[t].header, Users)} :
       \E e \in {EnsureModelLoaded(
                    [vm |-> vitamin_model, ci |-> class_indices,
                     map |-> vitamin_mapping, ml |-> MODEL_LOADED],
                    file, o, loadOk, loadOk, loadCount + 1)} :
          /\ v.pass
          /\ vitamin_model' = e.g.vm
          /\ class_indices' = e.g.ci
          /\ vitamin_mapping' = e.g.map
          /\ MODEL_LOADED' = e.g.ml
          /\ file' = e.file
          /\ loadCount' = loadCount + e.loads
          /\ IF e.ret # "True"
             THEN /\ last' = Response("detect", v.user, 0, req[t].image, 500,
                                      "Model not available on server", NoResult, << >>)
                  /\ Done(t)
             ELSE IF ~req[t].image.present
             THEN /\ last' = Response("detect", v.user, 0, req[t].image, 400,
                                      "No image uploaded", NoResult, << >>)
                  /\ Done(t)
             ELSE /\ pc' = [pc EXCEPT ![t] = "save"]
                  /\ req' = [req EXCEPT ![t].user = v.user]
                  /\ UNCHANGED last
    /\ UNCHANGED << envVars, site, dlres, polls, model, result, everTrue, late, nfetch,
                    why, UserVitamin, serial, expected, out, Users, uploads >>

\* main.py:244-248: image.save(os.path.join("uploads", image.filename))
DetectSave(t) ==
    /\ pc[t] = "save"
    /\ uploads' = [uploads EXCEPT ![req[t].filename] = req[t].image]
    /\ pc' = [pc EXCEPT ![t] = "predict"]
    /\ UNCHANGED << file, envVars, globals, site, dlres, polls, model, result, calls,
                    loadCount, everTrue, late, nfetch, why, dbVars, out, Users, req >>

\* main.py:250: predict_vitamin(...) reads the file at image_path
DetectPredict(t) ==
    /\ pc[t] = "predict"
    /\ \E res \in {PredictVitaminDeficiency(vitamin_model, class_indices, vitamin_mapping,
                                             uploads[req[t].filename])} :
          IF res.ok
          THEN /\ req' = [req EXCEPT ![t].res = res]
               /\ pc' = [pc EXCEPT ![t] = "commit"]
               /\ UNCHANGED last
          ELSE /\ last' = Response("detect", req[t].user, 0, req[t].image, 500,
                                   "Server error during prediction", res, << >>)
               /\ Done(t)
    /\ UNCHANGED << file, envVars, globals, site, dlres, polls, model, result, calls,
                    loadCount, everTrue, late, nfetch, why, UserVitamin, serial,
                    expected, out, Users, uploads >>

\* main.py:252-264: insert, commit and answer; a failed commit answers 500
DetectCommit(t) ==
    /\ pc[t] = "commit"
    /\ \E dbOk \in BOOLEAN, date \in {Now} :
          IF dbOk
          THEN /\ last' = Response("detect", req[t].user, 0, req[t].image, 200, "ok",
                                   req[t].res, << >>)
               /\ UserVitamin' = UserVitamin \cup
                      {NewRow(UserVitamin, req[t].user, req[t].res, date, serial + 1)}
               /\ serial' = serial + 1
               /\ expected' = expected \cup
                      {[id |-> NextId(UserVitamin), user_email |-> req[t].user,
                        vitamin |-> req[t].res.mapped_deficiency, date |-> date,
                        seq |-> serial + 1]}
          ELSE /\ last' = Response("detect", req[t].user, 0, req[t].image, 500,
                                   "Server error during prediction",
                                   RaiseV("OperationalError"), << >>)
               /\ UNCHANGED << UserVitamin, serial, expected >>
    /\ Done(t)
    /\ UNCHANGED << file, envVars, globals, site, dlres, polls, model, result, calls,
                    loadCount, everTrue, late, nfetch, why, out, Users, uploads >>

\* users.db holds the registered users; the model artifact and the metadata
\* files of the deployment are in place
InitServe ==
    /\ InitProgram
    /\ InitThreads
    /\ InitWeb
    /\ Users = UserEmails
    /\ file = "nonzero"
    /\ ciFile = ScenarioVocab
    /\ csvFile = ScenarioCsv

\* one worker thread, every kind of request
NextGate ==
    \/ Arrive("t1", Requests)
    \/ Reject("t1")
    \/ ListRecords("t1")
    \/ DeleteRecord("t1")
    \/ DetectLoad("t1")
    \/ DetectSave("t1")
    \/ DetectPredict("t1")
    \/ DetectCommit("t1")

SpecGate == InitServe /\ [][NextGate]_vars

\* the worker threads serving prediction requests of logged-in users
NextServe ==
    \/ \E t \in Threads : Arrive(t, DetectRequests)
    \/ \E t \in Threads : DetectLoad(t)
    \/ \E t \in Threads : DetectSave(t)
    \/ \E t \in Threads : DetectPredict(t)
    \/ \E t \in Threads : DetectCommit(t)

SpecServe == InitServe /\ [][NextServe]_vars

(***************************************************************************)
(* Properties of the HTTP layer (SpecGate, SpecServe)                      *)
(***************************************************************************)
\* a header carrying a verified, unexpired session token of an existing user
Acceptable(header, users) ==
    /\ header.present /\ header.parts = 2
    /\ header.token.kind = "signed"
    /\ header.token.exp # "past"
    /\ header.token.email \in users

\* C11: the pipeline and the ledger are gated by the session identity.  A
\* predict, list or delete request runs its handler only with a verified,
\* unexpired token of an existing user, and then as that user; any other request
\* is answered 401, 404 or 500 by the gate and triggers no model load, no upload,
\* no inference and no change to the ledger.
C11_TokenGate ==
    /\ [](\A t \in Threads :
             pc[t] \in {"save", "predict", "commit"} =>
                 /\ Acceptable(req[t].header, Users)
                 /\ req[t].user = req[t].header.token.email)
    /\ [][\A t \in Threads :
             (pc[t] = "auth" /\ pc'[t] # "auth") =>
                 IF Acceptable(req[t].header, Users)
                 THEN pc'[t] = "idle" =>
                          (last'.op = req[t].op /\ last'.user = req[t].header.token.email)
                 ELSE /\ pc'[t] = "idle"
                      /\ last'.op = req[t].op /\ last'.user = ""
                      /\ last'.status \in {401, 404, 500}
                      /\ UNCHANGED << globals, file, calls, loadCount, uploads,
                                      UserVitamin, serial >>]_vars

\* C11 witness: with the model loaded and a record in the ledger, a prediction
\* request whose signed token names no user was turned away
C11_Witness ==
    /\ last.op = "detect" /\ last.status = 404 /\ last.msg = "User not found"
    /\ MODEL_LOADED /\ UserVitamin # {}

\* C12: under every interleaving of concurrent prediction requests the file a
\* request reads for inference holds the image that request saved, and the
\* result answered and the mapped_deficiency recorded for its user are those of
\* the image uploaded in that same request.
C12_OwnImage ==
    /\ [](\A t \in Threads :
             pc[t] = "predict" => uploads[req[t].filename] = req[t].image)
    /\ [][\A t \in Threads :
             (pc[t] = "commit" /\ pc'[t] = "idle" /\ last'.status = 200) =>
                 LET own == PredictVitaminDeficiency(vitamin_model, class_indices,
                                                     vitamin_mapping, req[t].image)
                 IN  /\ last'.body = own
                     /\ \E r \in UserVitamin' \ UserVitamin :
                           /\ r.user_email = req[t].user
                           /\ r.vitamin = own.mapped_deficiency]_vars

====
